---- MODULE Spec2Model ----
(***************************************************************************)
(* Model of visitor.h: the closed-hierarchy visitor (Visitor<T...>), the   *)
(* acyclic visitor (AcyclicVisitor<T...>), the functor-backed Impl<F>      *)
(* objects and the two generic operations clone and print.                 *)
(*                                                                         *)
(* A client program is an object graph (objs), the visitor implementation  *)
(* objects it holds (impls), the callable it built them from (userF), an   *)
(* output stream (sink) and the build mode (debug: assert compiled in).    *)
(***************************************************************************)
EXTENDS Integers, Sequences, FiniteSets, TLC

\* ---- bounds of the model ------------------------------------------------
MaxObjs == 2        \* heap slots: slot 1 is the client object, the rest hold clones
MaxCalls == 2       \* calls a recording functor can count
MaxSink == 1        \* values the output stream can take
MaxVal == 1         \* data members range over 0..MaxVal

\* ---- the variant types of the client program ----------------------------
\* template <typename ...T>: the types the visitor is instantiated with.
\* Disc is a class derived from Circle that attaches no capability of its own.
ListTypes == {"Circle", "Square"}
Types == ListTypes \cup {"Disc"}
Parent(t) == IF t = "Disc" THEN "Circle" ELSE "none"
\* static_cast<S&>(*this) is defined exactly when the object is an S
IsA(d, s) == d = s \/ Parent(d) = s

Flavors == {"mut", "const"}
Strategies == {"closed", "acyclic"}

VARIABLES objs, impls, userF, cloner, frame, sink, last, aborted, debug
vars == <<objs, impls, userF, cloner, frame, sink, last, aborted, debug>>

ObjIds == 1..MaxObjs
\* impl slot 0 is the local visitor v of clone / the temporary of print
\* the two Impl objects the caller holds: v (slot 1), made by makeImpl, and
\* w (slot 2), constructed from v
UserImplIds == {1, 2}
ImplIds == {0} \cup UserImplIds

NoObj == [live |-> FALSE, strat |-> "closed", dyn |-> "Circle", cap |-> "Circle",
          val |-> 0, ext |-> 0]
\* a functor value: a recording callable (n, seen), a Cloner<Base> (copy) or a Streamer
NoFun == [kind |-> "none", n |-> 0, seen |-> <<>>, copy |-> 0]
NoImpl == [live |-> FALSE, strat |-> "closed", entries |-> {}, ref |-> "none", f |-> NoFun]
NoLast == [op |-> "none", obj |-> 0, impl |-> 0, ret |-> 0, cat |-> "none"]
\* the call of clone or print in progress, if any
Idle == [pc |-> "idle", client |-> 0, op |-> "none"]

\* ---- the object store the operators work on ------------------------------
World == [objs |-> objs, impls |-> impls, userF |-> userF, cloner |-> cloner, sink |-> sink]

FreeObjs(w) == {o \in ObjIds : ~w.objs[o].live}
NewObjId(w) == CHOOSE o \in FreeObjs(w) : \A p \in FreeObjs(w) : o <= p

\* F & getFunctor() override { return f; }  with  F f;
\* f is a member of the Impl when F is an object type, and a reference to the
\* callable the Impl was constructed from when F is a reference type.
GetFunctor(w, i) ==
    IF w.impls[i].ref = "none" THEN w.impls[i].f
    ELSE IF w.impls[i].ref = "cloner" THEN w.cloner
    ELSE w.userF

SetFunctor(w, i, st) ==
    IF w.impls[i].ref = "none" THEN [w EXCEPT !.impls[i].f = st]
    ELSE IF w.impls[i].ref = "cloner" THEN [w EXCEPT !.cloner = st]
    ELSE [w EXCEPT !.userF = st]

\* What reading the object o through a reference to T yields: its T part when
\* it is a T; anything when it is not (the static_cast that produced the
\* reference had undefined behaviour).
ReadVals(w, o, T) == IF IsA(w.objs[o].dyn, T) THEN {w.objs[o].val} ELSE 0..MaxVal

\* The caller's callable: it counts its calls, keeps the entry point and the
\* object of the last one (in a member that a move empties), and modifies the
\* object when it got a non-const reference.
RecorderCall(w, i, T, fl, o) ==
    LET st == GetFunctor(w, i)
        w1 == IF fl = "mut"
              THEN [w EXCEPT !.objs[o].val = (@ + 1) % (MaxVal + 1)]
              ELSE w
    IN  {SetFunctor(w1, i, [st EXCEPT !.n = @ + 1, !.seen = <<T, fl, o>>])}

\* Cloner<Base>::operator()( const T & t ) { copy = std::unique_ptr<Base>( new T(t) ); }
\* new T(t) copies the T part of t into an object of dynamic type T; the
\* assignment to copy deletes the object copy owned before.
ClonerCall(w, i, T, fl, o) ==
    LET st == GetFunctor(w, i)
        n  == NewObjId(w)
    IN  { LET w1 == [w EXCEPT !.objs[n] = [live |-> TRUE, strat |-> w.objs[o].strat,
                                           dyn |-> T, cap |-> T, val |-> v, ext |-> 0]]
              w2 == IF st.copy # 0 THEN [w1 EXCEPT !.objs[st.copy] = NoObj] ELSE w1
          IN  SetFunctor(w2, i, [st EXCEPT !.copy = n])
          : v \in ReadVals(w, o, T) }

\* Streamer<OutputStream>::operator()( const T & t ) { os << t; }
StreamerCall(w, i, T, fl, o) ==
    { [w EXCEPT !.sink = Append(@, <<T, v>>)] : v \in ReadVals(w, o, T) }

\* getFunctor()( t )
FunctorCall(w, i, T, fl, o) ==
    LET k == GetFunctor(w, i).kind
    IN  CASE k = "rec"      -> RecorderCall(w, i, T, fl, o)
          [] k = "cloner"   -> ClonerCall(w, i, T, fl, o)
          [] k = "streamer" -> StreamerCall(w, i, T, fl, o)
          [] OTHER          -> {w}

\* the resources a call of the functor needs are within the bounds
CanCall(w, i) ==
    LET st == GetFunctor(w, i)
    IN  CASE st.kind = "rec"      -> st.n < MaxCalls
          [] st.kind = "cloner"   -> FreeObjs(w) # {}
          [] st.kind = "streamer" -> Len(w.sink) < MaxSink
          [] OTHER                -> TRUE

\* Visitor<T>::Impl<F>::visit( T & t ) override { getFunctor()( t ); }
VisitorVisit(w, i, T, fl, o) == FunctorCall(w, i, T, fl, o)

\* AcyclicVisitor<T>::Impl<F>::visit( T & t ) override { getFunctor()(t); }
AcyclicVisitorVisit(w, i, T, fl, o) == FunctorCall(w, i, T, fl, o)

\* ---- dispatch -------------------------------------------------------------
\* the result of one dispatch: the store after it, whether the program was
\* terminated (failed assert, or a crash after undefined behaviour), and the
\* value returned
Outcome(w, ab, r) == [w |-> w, aborted |-> ab, ret |-> r]

\* fault model: the assert accepts every object that is an S (a dynamic_cast test)
AssertHoldsIsA(w, o) == IsA(w.objs[o].dyn, w.objs[o].cap)

\* assert( typeid( *this ) == typeid( S ) );
AssertHolds(w, o) == w.objs[o].dyn = w.objs[o].cap

\* fault model: accept casts the visitor to the entry point of another listed type
VisitableAcceptOtherEntry(w, o, i, fl, dbg) ==
    LET T == CHOOSE t \in ListTypes : t # w.objs[o].cap
    IN  IF dbg /\ ~AssertHolds(w, o) THEN {Outcome(w, TRUE, 0)}
        ELSE {Outcome(x, FALSE, 1) : x \in VisitorVisit(w, i, T, fl, o)}

\* Visitor<T...>::Visitable<S>::accept( Visitor & v ) and
\* accept( ConstVisitor & v ) const: the assert (compiled in when dbg), then
\* static_cast<Visitor<S>&>(v).visit( static_cast<S&>(*this) ).
\* The static_cast of an object that is no S is undefined: the program
\* crashes or goes on with the reference.
VisitableAccept(w, o, i, fl, dbg) ==
    LET S == w.objs[o].cap
        visited == {Outcome(x, FALSE, 1) : x \in VisitorVisit(w, i, S, fl, o)}
    IN  IF dbg /\ ~AssertHolds(w, o) THEN {Outcome(w, TRUE, 0)}
        ELSE IF IsA(w.objs[o].dyn, S) THEN visited
        ELSE visited \cup {Outcome(w, TRUE, 0)}

\* fault model: the probe looks for any entry point of the flavour, whatever its type
DynamicCastAnyType(w, i, T, fl) == \E e \in w.impls[i].entries : e[2] = fl
\* fault model: the probe ignores the const qualification of T
DynamicCastIgnoreConst(w, i, T, fl) == \E e \in w.impls[i].entries : e[1] = T

\* dynamic_cast<AcyclicVisitor<T>*>(&v): non-null exactly when the visitor
\* object has the base AcyclicVisitor<T> (T const-qualified for fl = "const")
DynamicCast(w, i, T, fl) == <<T, fl>> \in w.impls[i].entries

\* fault model: tryAccept dispatches but falls through to return false
AcyclicTryAcceptFallsThrough(w, o, i) ==
    LET S == w.objs[o].cap
    IN  IF DynamicCast(w, i, S, "mut")
        THEN {Outcome(x, FALSE, 0) : x \in AcyclicVisitorVisit(w, i, S, "mut", o)}
        ELSE {Outcome(w, FALSE, 0)}

\* AcyclicVisitable<S>::tryAccept( AcyclicVisitorInterface & v )
AcyclicTryAccept(w, o, i) ==
    LET S == w.objs[o].cap
        visited == {Outcome(x, FALSE, 1) : x \in AcyclicVisitorVisit(w, i, S, "mut", o)}
    IN  IF DynamicCast(w, i, S, "mut")
        THEN IF IsA(w.objs[o].dyn, S) THEN visited
             ELSE visited \cup {Outcome(w, TRUE, 0)}
        ELSE {Outcome(w, FALSE, 0)}

\* fault model: tryAcceptConst calls visit without testing the cast's result
AcyclicTryAcceptConstUnchecked(w, o, i) ==
    {Outcome(x, FALSE, 1) : x \in AcyclicVisitorVisit(w, i, w.objs[o].cap, "const", o)}

\* AcyclicVisitable<S>::tryAcceptConst( AcyclicVisitorInterface & v ) const
AcyclicTryAcceptConst(w, o, i) ==
    LET S == w.objs[o].cap
        visited == {Outcome(x, FALSE, 1) : x \in AcyclicVisitorVisit(w, i, S, "const", o)}
    IN  IF DynamicCast(w, i, S, "const")
        THEN IF IsA(w.objs[o].dyn, S) THEN visited
             ELSE visited \cup {Outcome(w, TRUE, 0)}
        ELSE {Outcome(w, FALSE, 0)}

\* ---- construction of Impl<F> ----------------------------------------------
\* F( const F & ): the new functor; the source is not touched
FunctorCopy(st) == st
\* F( F && ): the members are moved out of the source
FunctorMovedFrom(st) == [st EXCEPT !.seen = <<>>, !.copy = 0]

\* the entry points of Visitor<T...> / AcyclicVisitor<T...> over the list L
\* (fl = "const" for Visitor<const T...>)
Entries(L, fl) == {<<t, fl>> : t \in L}

\* template <typename...Args> Impl( Args&&...args ) : f(std::forward<Args>(args)...)
\* with F an object type and one rvalue argument: f is move-constructed
ImplFromValue(strat, es, st) ==
    [live |-> TRUE, strat |-> strat, entries |-> es, ref |-> "none", f |-> st]
\* the same constructor with F a reference type: f is bound to the argument
ImplFromRef(strat, es, name) ==
    [live |-> TRUE, strat |-> strat, entries |-> es, ref |-> name, f |-> NoFun]

\* fault model: makeImpl instantiates Impl<F&> and binds the caller's callable
MakeImplByRef(strat, es, callerF) == ImplFromRef(strat, es, "userF")

\* static Impl<F> makeImpl( F f ) { return Impl<F>( std::move(f) ); }
\* F is deduced from a by-value parameter: the parameter is a copy of the
\* caller's callable and the member is moved from the parameter.
MakeImpl(strat, es, callerF) == ImplFromValue(strat, es, FunctorCopy(callerF))

\* Which constructor builds an Impl from another Impl of value category cat:
\* Impl(Impl&) delegates to Impl(const Impl&), Impl(Impl&&) is the defaulted
\* move, Impl(const Impl&) the defaulted copy, Impl(const Impl&&) delegates
\* to Impl(const Impl&).
Categories == {"lvalue", "rvalue", "const_lvalue", "const_rvalue"}
\* fault model: Impl(Impl&) forwards its argument as an rvalue
VisitorImplCtorMovesLvalue(cat) ==
    IF cat \in {"rvalue", "lvalue"} THEN "move" ELSE "const_copy"
VisitorImplCtor(cat) == IF cat = "rvalue" THEN "move" ELSE "const_copy"
AcyclicVisitorImplCtor(cat) == IF cat = "rvalue" THEN "move" ELSE "const_copy"
ImplCtor(strat, cat) ==
    IF strat = "closed" THEN VisitorImplCtor(cat) ELSE AcyclicVisitorImplCtor(cat)

\* the source Impl after the construction (a reference member is copied as a
\* reference by either constructor)
ImplSourceAfter(src, route) ==
    IF route = "move" /\ src.ref = "none"
    THEN [src EXCEPT !.f = FunctorMovedFrom(@)]
    ELSE src
ImplConstructed(src, route) == [src EXCEPT !.f = FunctorCopy(@)]

\* ---- the program ------------------------------------------------------------
\* the client objects a program can hold: every class deriving from
\* Visitable<S> / AcyclicVisitable<S> (cap = S), of every dynamic type
ClientObjs ==
    {[live |-> TRUE, strat |-> st, dyn |-> d, cap |-> c, val |-> v, ext |-> e] :
        st \in Strategies, d \in Types, c \in ListTypes, v \in 0..MaxVal,
        e \in 0..MaxVal} \ {x \in [live : {TRUE}, strat : Strategies, dyn : Types,
        cap : ListTypes, val : 0..MaxVal, ext : 0..MaxVal] : x.dyn # "Disc" /\ x.ext # 0}

Init ==
    /\ objs \in {[o \in ObjIds |-> IF o = 1 THEN c ELSE NoObj] : c \in ClientObjs}
    /\ impls = [i \in ImplIds |-> NoImpl]
    /\ userF = [kind |-> "rec", n |-> 0, seen |-> <<>>, copy |-> 0]
    /\ cloner = NoFun
    /\ frame = Idle
    /\ sink = <<>>
    /\ last = NoLast
    /\ aborted = FALSE
    \* NDEBUG or not; only the closed hierarchy has an assert
    /\ debug \in (IF objs[1].strat = "closed" THEN BOOLEAN ELSE {FALSE})

Running == ~aborted /\ frame.pc = "idle"

\* what the caller knows of the operation it ran last: which, on what, and
\* the value it returned
Done(op, o, i, r, c) ==
    last' = [op |-> op, obj |-> o, impl |-> i, ret |-> r, cat |-> c]

Store(w) ==
    /\ objs' = w.objs
    /\ impls' = w.impls
    /\ userF' = w.userF
    /\ cloner' = w.cloner
    /\ sink' = w.sink

\* the visitor lists a program instantiates: the closed visitor lists every
\* variant type; an acyclic visitor lists any of them, in either flavour
EntrySets(strat) ==
    IF strat = "closed" THEN {Entries(ListTypes, fl) : fl \in Flavors}
    ELSE {Entries(L, fl) : L \in SUBSET ListTypes, fl \in Flavors}
         \cup {Entries({t}, "mut") \cup Entries({t}, "const") : t \in ListTypes}

\* auto v = V::makeImpl( f );
MakeImplAct ==
    \E i \in {1}, strat \in {objs[1].strat} :
      \E es \in EntrySets(strat) :
        /\ Running
        /\ ~impls[i].live
        /\ impls' = [impls EXCEPT ![i] = MakeImpl(strat, es, userF)]
        /\ Done("makeImpl", 0, i, 0, "none")
        /\ UNCHANGED <<objs, userF, cloner, frame, sink, aborted, debug>>

\* Impl<F> w( v );  with v of value category cat
CopyImplAct ==
    \E src \in {1}, dst \in {2}, cat \in Categories :
        /\ Running
        /\ impls[src].live
        /\ ~impls[dst].live
        /\ LET route == ImplCtor(impls[src].strat, cat)
           IN  impls' = [impls EXCEPT ![dst] = ImplConstructed(impls[src], route),
                                      ![src] = ImplSourceAfter(impls[src], route)]
        /\ Done("copy", src, dst, 0, cat)
        /\ UNCHANGED <<objs, userF, cloner, frame, sink, aborted, debug>>

\* client.accept( v );  the overload is chosen by the visitor's flavour
AcceptAct ==
    \E o \in ObjIds, i \in UserImplIds, fl \in Flavors :
        /\ Running
        /\ objs[o].live /\ objs[o].strat = "closed"
        /\ impls[i].live /\ impls[i].strat = "closed"
        /\ impls[i].entries = Entries(ListTypes, fl)
        /\ CanCall(World, i)
        /\ \E out \in VisitableAccept(World, o, i, fl, debug) :
            /\ Store(out.w)
            /\ aborted' = out.aborted
            /\ Done("accept", o, i, out.ret, fl)
        /\ UNCHANGED <<frame, debug>>

\* client.tryAccept( v );
TryAcceptAct ==
    \E o \in ObjIds, i \in UserImplIds :
        /\ Running
        /\ objs[o].live /\ objs[o].strat = "acyclic"
        /\ impls[i].live /\ impls[i].strat = "acyclic"
        /\ CanCall(World, i)
        /\ \E out \in AcyclicTryAccept(World, o, i) :
            /\ Store(out.w)
            /\ aborted' = out.aborted
            /\ Done("tryAccept", o, i, out.ret, "mut")
        /\ UNCHANGED <<frame, debug>>

\* client.tryAcceptConst( v );
TryAcceptConstAct ==
    \E o \in ObjIds, i \in UserImplIds :
        /\ Running
        /\ objs[o].live /\ objs[o].strat = "acyclic"
        /\ impls[i].live /\ impls[i].strat = "acyclic"
        /\ CanCall(World, i)
        /\ \E out \in AcyclicTryAcceptConst(World, o, i) :
            /\ Store(out.w)
            /\ aborted' = out.aborted
            /\ Done("tryAcceptConst", o, i, out.ret, "const")
        /\ UNCHANGED <<frame, debug>>

\* clone<V, Base>( client ):
\*     Cloner<Base> cloner;
\*     typename V::ConstVisitor::template Impl<Cloner<Base>&> v( cloner );
CloneBegin ==
    \E o \in ObjIds :
      \E es \in EntrySets(objs[o].strat) :
        /\ Running
        /\ objs[o].live
        /\ FreeObjs(World) # {}
        /\ \A e \in es : e[2] = "const"
        /\ cloner' = [kind |-> "cloner", n |-> 0, seen |-> <<>>, copy |-> 0]
        /\ impls' = [impls EXCEPT ![0] = ImplFromRef(objs[o].strat, es, "cloner")]
        /\ frame' = [pc |-> "built", client |-> o, op |-> "clone"]
        /\ Done("clone_begin", o, 0, 0, "none")
        /\ UNCHANGED <<objs, userF, sink, aborted, debug>>

\*     client.accept( v );   /   client.tryAcceptConst( v );
CloneDispatch ==
    /\ ~aborted
    /\ frame.pc = "built" /\ frame.op = "clone"
    /\ \E out \in (IF objs[frame.client].strat = "closed"
                   THEN VisitableAccept(World, frame.client, 0, "const", debug)
                   ELSE AcyclicTryAcceptConst(World, frame.client, 0)) :
        /\ Store(out.w)
        /\ aborted' = out.aborted
        /\ Done("clone_dispatch", frame.client, 0, out.ret, "const")
    /\ frame' = [frame EXCEPT !.pc = "dispatched"]
    /\ UNCHANGED debug

\*     return std::move(cloner.copy);   (v and cloner go out of scope)
CloneReturn ==
    /\ ~aborted
    /\ frame.pc = "dispatched" /\ frame.op = "clone"
    /\ cloner' = NoFun
    /\ impls' = [impls EXCEPT ![0] = NoImpl]
    /\ frame' = Idle
    /\ Done("clone", frame.client, 0, cloner.copy, "none")
    /\ UNCHANGED <<objs, userF, sink, aborted, debug>>

\* print<V>( os, client ):
\*     auto v = V::ConstVisitor::makeImpl( Streamer<OutputStream>(os) );
PrintBegin ==
    \E o \in ObjIds :
      \E es \in EntrySets(objs[o].strat) :
        /\ Running
        /\ objs[o].live
        /\ Len(sink) < MaxSink
        /\ \A e \in es : e[2] = "const"
        /\ impls' = [impls EXCEPT ![0] =
                        MakeImpl(objs[o].strat, es,
                                 [kind |-> "streamer", n |-> 0, seen |-> <<>>, copy |-> 0])]
        /\ frame' = [pc |-> "built", client |-> o, op |-> "print"]
        /\ Done("print_begin", o, 0, 0, "none")
        /\ UNCHANGED <<objs, userF, cloner, sink, aborted, debug>>

\*     client.accept( v );   /   client.tryAcceptConst( v );
PrintDispatch ==
    /\ ~aborted
    /\ frame.pc = "built" /\ frame.op = "print"
    /\ \E out \in (IF objs[frame.client].strat = "closed"
                   THEN VisitableAccept(World, frame.client, 0, "const", debug)
                   ELSE AcyclicTryAcceptConst(World, frame.client, 0)) :
        /\ Store(out.w)
        /\ aborted' = out.aborted
        /\ Done("print_dispatch", frame.client, 0, out.ret, "const")
    /\ frame' = [frame EXCEPT !.pc = "dispatched"]
    /\ UNCHANGED debug

\*     return os;   (v goes out of scope)
PrintReturn ==
    /\ ~aborted
    /\ frame.pc = "dispatched" /\ frame.op = "print"
    /\ impls' = [impls EXCEPT ![0] = NoImpl]
    /\ frame' = Idle
    /\ Done("print", frame.client, 0, 0, "none")
    /\ UNCHANGED <<objs, userF, cloner, sink, aborted, debug>>

\* the caller modifies an object it owns
MutateAct ==
    \E o \in ObjIds :
        /\ Running
        /\ objs[o].live
        /\ objs' = [objs EXCEPT ![o].val = (@ + 1) % (MaxVal + 1)]
        /\ Done("mutate", o, 0, 0, "none")
        /\ UNCHANGED <<impls, userF, cloner, frame, sink, aborted, debug>>

\* the caller drops the unique_ptr a clone returned
ReleaseAct ==
    \E o \in ObjIds \ {1} :
        /\ Running
        /\ objs[o].live
        /\ objs' = [objs EXCEPT ![o] = NoObj]
        /\ Done("release", o, 0, 0, "none")
        /\ UNCHANGED <<impls, userF, cloner, frame, sink, aborted, debug>>

\* a program that builds visitors and dispatches its objects through them
NextVisit ==
    \/ MakeImplAct
    \/ CopyImplAct
    \/ AcceptAct
    \/ TryAcceptAct
    \/ TryAcceptConstAct

SpecVisit == Init /\ [][NextVisit]_vars

\* a program that clones and prints its objects
NextOps ==
    \/ CloneBegin
    \/ CloneDispatch
    \/ CloneReturn
    \/ PrintBegin
    \/ PrintDispatch
    \/ PrintReturn
    \/ MutateAct
    \/ ReleaseAct

SpecOps == Init /\ [][NextOps]_vars

\* a well-typed program that builds visitors, dispatches through them and clones
InitFunctor == Init /\ objs[1].dyn = objs[1].cap

NextFunctor ==
    \/ MakeImplAct
    \/ CopyImplAct
    \/ AcceptAct
    \/ TryAcceptAct
    \/ TryAcceptConstAct
    \/ CloneBegin
    \/ CloneDispatch
    \/ CloneReturn

SpecFunctor == InitFunctor /\ [][NextFunctor]_vars

\* ---- properties -----------------------------------------------------------
\* Every action records the operation it ran in last, so in a step that
\* changes the state last' names the operation that made the step.
DispatchOps == {"accept", "tryAccept", "tryAcceptConst"}
CopyingCategories == {"lvalue", "const_lvalue", "const_rvalue"}

\* C1: accept on an object whose dynamic type is the type S of its Visitable
\* capability invokes the visitor's entry point for S exactly once, no entry
\* point of another type, with a reference to the very object accept was
\* called on; in both the mutable and the const flavour.
C1_AcceptInvokesEntryOfS ==
    [][ (last'.op = "accept" /\ objs[last'.obj].dyn = objs[last'.obj].cap) =>
          LET o == last'.obj
              i == last'.impl
              S == objs[o].cap
          IN  /\ ~aborted'
              /\ <<S, last'.cat>> \in impls[i].entries
              /\ impls'[i].f.n = impls[i].f.n + 1
              /\ impls'[i].f.seen = <<S, last'.cat, o>>
              /\ \A j \in ImplIds \ {i} : impls'[j] = impls[j] ]_vars

C1_Witness ==
    /\ last.op = "accept" /\ ~aborted
    /\ objs[last.obj].dyn = objs[last.obj].cap
    /\ impls[last.impl].f.n = 2
    /\ impls[last.impl].f.seen = <<objs[last.obj].cap, "const", last.obj>>

\* C2: tryAccept on an object that is an S, with a visitor that implements
\* the mutable entry point for S, returns true and invokes that entry point
\* exactly once with the object itself, and no other entry point.
C2_TryAcceptMatchDispatchesOnce ==
    [][ (/\ last'.op = "tryAccept"
         /\ <<objs[last'.obj].cap, "mut">> \in impls[last'.impl].entries
         /\ IsA(objs[last'.obj].dyn, objs[last'.obj].cap)) =>
          LET o == last'.obj
              i == last'.impl
          IN  /\ last'.ret = 1
              /\ ~aborted'
              /\ impls'[i].f.n = impls[i].f.n + 1
              /\ impls'[i].f.seen = <<objs[o].cap, "mut", o>>
              /\ \A j \in ImplIds \ {i} : impls'[j] = impls[j] ]_vars

C2_Witness ==
    /\ last.op = "tryAccept" /\ last.ret = 1 /\ ~aborted
    /\ objs[last.obj].dyn = "Disc"
    /\ Cardinality(impls[last.impl].entries) = 2
    /\ impls[last.impl].f.seen = <<objs[last.obj].cap, "mut", last.obj>>

\* C3: tryAccept (tryAcceptConst) with a visitor that does not implement the
\* mutable (const) entry point for S returns false, invokes nothing, leaves
\* the object, the visitor and every functor unchanged, and does not abort.
C3_NoMatchNoEffect ==
    [][ (/\ last'.op \in {"tryAccept", "tryAcceptConst"}
         /\ <<objs[last'.obj].cap, last'.cat>> \notin impls[last'.impl].entries) =>
          /\ last'.ret = 0
          /\ ~aborted'
          /\ objs' = objs
          /\ impls' = impls
          /\ userF' = userF
          /\ sink' = sink ]_vars

C3_Witness ==
    /\ last.op = "tryAccept" /\ last.ret = 0 /\ ~aborted
    /\ <<objs[last.obj].cap, "mut">> \notin impls[last.impl].entries
    /\ \E e \in impls[last.impl].entries : e[2] = "mut"
    /\ impls[last.impl].f.n = 0

\* C7: constructing an Impl from another Impl that is a non-const lvalue, a
\* const lvalue or a const rvalue goes through the const copy constructor
\* and leaves the source Impl, its functor included, as it was; the new Impl
\* holds a copy of the functor.
C7_CopyLeavesSourceFunctor ==
    [][ (last'.op = "copy" /\ last'.cat \in CopyingCategories) =>
          LET src == last'.obj
              dst == last'.impl
          IN  /\ ImplCtor(impls[src].strat, last'.cat) = "const_copy"
              /\ impls'[src] = impls[src]
              /\ impls'[dst].live
              /\ impls'[dst].f = impls[src].f
              /\ userF' = userF ]_vars

C7_Witness ==
    /\ last.op = "copy" /\ last.cat = "lvalue"
    /\ impls[last.obj].f.seen # <<>>
    /\ impls[last.impl].f = impls[last.obj].f

\* C9 as stated: in a debug build the assert of accept fails exactly when the
\* dynamic type is not S, only for objects of a type derived from S, before
\* anything is dispatched, and never when the object attached its own type.
C9_AssertOnlyForDerived ==
    [][ (last'.op = "accept" /\ debug) =>
          LET o == last'.obj
          IN  /\ aborted' <=> objs[o].dyn # objs[o].cap
              /\ aborted' => Parent(objs[o].dyn) = objs[o].cap
              /\ aborted' => (objs' = objs /\ impls' = impls)
              /\ objs[o].dyn = objs[o].cap => ~aborted' ]_vars

\* C9 amended: in a debug build the assert of accept fails exactly when the
\* object's dynamic type is not S (a type derived from S, or any other type
\* that attached Visitable<S>), before anything is dispatched; it never fails
\* when the object attached the capability with its own type.
C9_AssertExactlyOnTypeMismatch ==
    [][ (last'.op = "accept" /\ debug) =>
          LET o == last'.obj
          IN  /\ aborted' <=> objs[o].dyn # objs[o].cap
              /\ aborted' => (objs' = objs /\ impls' = impls /\ last'.ret = 0)
              /\ objs[o].dyn = objs[o].cap => ~aborted' ]_vars

C9_Witness ==
    /\ last.op = "accept" /\ debug /\ aborted
    /\ ~IsA(objs[last.obj].dyn, objs[last.obj].cap)
    /\ impls[last.impl].f.n = 0

\* C10: tryAccept succeeds only through the mutable entry point for S and
\* tryAcceptConst only through the const one; a visitor with only the const
\* (mutable) entry point for S makes tryAccept (tryAcceptConst) return false
\* with nothing invoked.
C10_ConstnessByExactFlavour ==
    [][ last'.op \in {"tryAccept", "tryAcceptConst"} =>
          LET o == last'.obj
              i == last'.impl
              S == objs[o].cap
              other == IF last'.cat = "mut" THEN "const" ELSE "mut"
          IN  /\ last'.ret = 1 =>
                    /\ <<S, last'.cat>> \in impls[i].entries
                    /\ impls'[i].f.seen = <<S, last'.cat, o>>
              /\ (<<S, other>> \in impls[i].entries
                  /\ <<S, last'.cat>> \notin impls[i].entries) =>
                    /\ last'.ret = 0
                    /\ impls' = impls
                    /\ objs' = objs ]_vars

C10_Witness ==
    /\ last.op = "tryAcceptConst" /\ last.ret = 0 /\ ~aborted
    /\ <<objs[last.obj].cap, "mut">> \in impls[last.impl].entries
    /\ <<objs[last.obj].cap, "const">> \notin impls[last.impl].entries

\* C4 as stated: whenever the dispatch inside clone succeeds on an object
\* (an S, or of a type derived from S), the clone is another object than the
\* source, equal to it in value (every data member of the source), the
\* source is unchanged by clone, and a later modification of one of the two
\* leaves the other unchanged.
C4_CloneRoundTrip ==
    [][ /\ (/\ last'.op = "clone" /\ last'.ret # 0
            /\ IsA(objs[last'.obj].dyn, objs[last'.obj].cap)) =>
              LET v == last'.obj
                  c == last'.ret
              IN  /\ c # v
                  /\ objs'[c].live
                  /\ objs'[c].val = objs'[v].val
                  /\ objs'[c].ext = objs'[v].ext
                  /\ objs'[v] = objs[v]
        /\ last'.op = "clone_dispatch" => objs'[last'.obj] = objs[last'.obj]
        /\ last'.op = "mutate" =>
              \A p \in ObjIds \ {last'.obj} : objs'[p] = objs[p] ]_vars

\* C5 as stated: whenever the dispatch inside clone succeeds, whatever the
\* dynamic type of the source (S or a type derived from S), the result is
\* non-empty, the only owner of a new object, and that object's dynamic type
\* is the source's dynamic type.
C5_ClonePreservesDynamicType ==
    (/\ last.op = "clone" /\ last.ret # 0
     /\ IsA(objs[last.obj].dyn, objs[last.obj].cap)) =>
        /\ objs[last.ret].live
        /\ last.ret # last.obj
        /\ cloner.copy = 0
        /\ objs[last.ret].dyn = objs[last.obj].dyn

\* C6: clone and print on an open-hierarchy object whose type the const
\* visitor set V does not handle: the dispatch fails, clone allocates nothing
\* and returns an empty result, print appends nothing to the sink, and
\* neither aborts.
C6_FailedDispatchInCloneAndPrint ==
    [][ (/\ frame.op \in {"clone", "print"}
         /\ objs[frame.client].strat = "acyclic"
         /\ <<objs[frame.client].cap, "const">> \notin impls[0].entries) =>
           /\ ~aborted'
           /\ objs' = objs
           /\ sink' = sink
           /\ last'.op \in {"clone_dispatch", "print_dispatch"} =>
                 (last'.ret = 0 /\ cloner' = cloner)
           /\ last'.op = "clone" => last'.ret = 0 ]_vars

C6_Witness ==
    /\ last.op = "clone" /\ last.ret = 0 /\ ~aborted
    /\ objs[last.obj].strat = "acyclic"
    /\ sink = <<>>
    /\ \A o \in ObjIds \ {last.obj} : ~objs[o].live

====
